---- MODULE Spec2Model ----
(***************************************************************************)
(* Meshy Roblox Bridge (src/server.py): the OAuth authorization-code+PKCE  *)
(* flow, the token manager and the asset upload / poll protocol, as a      *)
(* state machine over the three process-wide dictionaries of the server.   *)
(*                                                                         *)
(* Every HTTP handler is a coroutine: it runs atomically between two       *)
(* awaits.  A request slot holds the position (pc) and the locals (loc) of *)
(* one handler; an action is the code of a handler from one await to the   *)
(* next, the answer of the remote service being the action's input.        *)
(***************************************************************************)
EXTENDS Integers, Sequences, FiniteSets, TLC

VARIABLES
    now,                \* time.time(), in seconds
    oauth_states,       \* dict: state token -> {code_verifier, created_at}
    user_tokens,        \* dict: the single Credential ({} when absent)
    upload_operations,  \* dict: operation id -> shadow of the remote job
    issued,             \* number of state tokens secrets.token_urlsafe gave
    rq,                 \* request slots: the handlers in flight
    hist                \* per state token: what its callbacks did (history)

vars == <<now, oauth_states, user_tokens, upload_operations, issued, rq, hist>>

(***************************************************************************)
(* Bounds of the model.                                                    *)
(***************************************************************************)
MaxStates == 2          \* state tokens /roblox/authorize may issue
MaxTime == 4800         \* the clock stops here
MaxTimeAuth == 1200     \* the same, where only the 10-minute TTL matters
MaxEntries == 2         \* names of a downloaded archive
NumReq == 2             \* request slots

(***************************************************************************)
(* Program constants.                                                      *)
(***************************************************************************)
StateTTL == 600             \* roblox_authorize: cutoff = time.time() - 600
OperationTTL == 3600        \* upload_status: cutoff = time.time() - 3600
RefreshLookahead == 60      \* get_valid_access_token: time.time() + 60
DefaultExpiresIn == 900     \* data.get("expires_in", 900)
TickStep == StateTTL        \* the modelled clock advances by one state TTL

(***************************************************************************)
(* Python values.  None is the empty tuple; a dict is a function whose     *)
(* domain is the set of its keys.                                          *)
(***************************************************************************)
None == << >>
EmptyDict == << >>

Get(d, k, dflt) == IF k \in DOMAIN d THEN d[k] ELSE dflt

Update(d, e) ==
    [k \in (DOMAIN d) \cup (DOMAIN e) |-> IF k \in DOMAIN e THEN e[k] ELSE d[k]]

Remove(d, ks) == [k \in (DOMAIN d) \ ks |-> d[k]]

Put(d, k, v) == [j \in (DOMAIN d) \cup {k} |-> IF j = k THEN v ELSE d[j]]

(***************************************************************************)
(* Request slots.                                                          *)
(***************************************************************************)
Req == 1..NumReq

IdleSlot == [pc |-> "idle", kind |-> "none", inp |-> None, loc |-> EmptyDict,
             resp |-> EmptyDict, calls |-> << >>]

Free(r) == rq[r].pc \in {"idle", "done"}

\* the handler of slot r returns (or raises): resp is the HTTP response,
\* calls the remote HTTP requests it issued, in order
Return(r, kind, inp, calls, resp) ==
    [rq EXCEPT ![r] = [pc |-> "done", kind |-> kind, inp |-> inp,
                       loc |-> EmptyDict, resp |-> resp, calls |-> calls]]

\* the handler of slot r suspends on a remote HTTP request
Await(r, pc, kind, inp, calls, loc) ==
    [rq EXCEPT ![r] = [pc |-> pc, kind |-> kind, inp |-> inp,
                       loc |-> loc, resp |-> EmptyDict, calls |-> calls]]

(***************************************************************************)
(* Tokens of the provider.  ver 0: issued by the code exchange, ver 1:     *)
(* issued by a refresh.  auth is the state token of the authorization.     *)
(***************************************************************************)
AccessToken(auth, ver) == <<"access", auth, ver>>
RefreshToken(auth, ver) == <<"refresh", auth, ver>>
AuthOf(tok) == tok[2]

\* secrets.token_urlsafe(64) and its S256 challenge: one fresh pair per call
CodeVerifier(n) == <<"verifier", n>>
CodeChallenge(verifier) == <<"S256", verifier>>

generate_pkce(n) == <<CodeVerifier(n), CodeChallenge(CodeVerifier(n))>>

(***************************************************************************)
(* History of the callbacks of a state token (no code reads it).           *)
(***************************************************************************)
NoHist == [first |-> "none", later_passed |-> FALSE, swept |-> FALSE]

NoteCallback(h, passed) ==
    IF h.first = "none"
    THEN [h EXCEPT !.first = IF passed THEN "passed" ELSE "rejected"]
    ELSE [h EXCEPT !.later_passed = h.later_passed \/ passed]

(***************************************************************************)
(* GET /status                                                             *)
(***************************************************************************)
status(r) ==
    /\ Free(r)
    /\ rq' = Return(r, "status", None, << >>,
                    [code |-> 200,
                     connected |-> Get(user_tokens, "access_token", None) # None,
                     user_info |-> Get(user_tokens, "user_info", None)])
    /\ UNCHANGED <<now, oauth_states, user_tokens, upload_operations, issued, hist>>

(***************************************************************************)
(* GET /roblox/authorize, and POST /connect, which calls it and opens the  *)
(* browser.                                                                *)
(***************************************************************************)
\* the cutoff itself counts as expired
ExpiredStates_inclusive(t) ==
    {k \in DOMAIN oauth_states : oauth_states[k].created_at <= t - StateTTL}

ExpiredStates(t) ==
    {k \in DOMAIN oauth_states : oauth_states[k].created_at < t - StateTTL}

roblox_authorize(r, kind, limit) ==
    /\ Free(r)
    /\ issued < limit
    /\ LET expired == ExpiredStates(now)
           state == issued + 1
           pkce == generate_pkce(state)
       IN /\ oauth_states' = Put(Remove(oauth_states, expired), state,
                                 [code_verifier |-> pkce[1], created_at |-> now])
          /\ issued' = state
          /\ hist' = [s \in DOMAIN hist |->
                        IF s \in expired THEN [hist[s] EXCEPT !.swept = TRUE]
                        ELSE hist[s]]
          /\ rq' = Return(r, kind, None, << >>,
                          IF kind = "connect"
                          THEN [code |-> 200, success |-> TRUE]
                          ELSE [code |-> 200, state |-> state,
                                code_challenge |-> pkce[2]])
    /\ UNCHANGED <<now, user_tokens, upload_operations>>

connect(r, limit) == roblox_authorize(r, "connect", limit)

(***************************************************************************)
(* GET /roblox/callback?code&state                                         *)
(* State 0 is a token the server never issued (forged).  The code is       *)
(* opaque to the server: the provider's answer decides.                    *)
(***************************************************************************)
\* the state is looked up and left in place
oauth_callback_nopop(r, state) ==
    /\ Free(r)
    /\ LET state_data == Get(oauth_states, state, None)
       IN /\ oauth_states' = oauth_states
          /\ hist' = [hist EXCEPT ![state] = NoteCallback(@, state_data # None)]
          /\ rq' = IF state_data = None
                   THEN Return(r, "callback", state, << >>,
                               [code |-> 400, error |-> "Invalid state parameter"])
                   ELSE Await(r, "cb_exchange", "callback", state,
                              <<[to |-> "token_exchange"]>>,
                              [code_verifier |-> state_data.code_verifier])
    /\ UNCHANGED <<now, user_tokens, upload_operations, issued>>

oauth_callback(r, state) ==
    /\ Free(r)
    /\ LET state_data == Get(oauth_states, state, None)
       IN /\ oauth_states' = Remove(oauth_states, {state})
          /\ hist' = [hist EXCEPT ![state] = NoteCallback(@, state_data # None)]
          /\ rq' = IF state_data = None
                   THEN Return(r, "callback", state, << >>,
                               [code |-> 400, error |-> "Invalid state parameter"])
                   ELSE Await(r, "cb_exchange", "callback", state,
                              <<[to |-> "token_exchange"]>>,
                              [code_verifier |-> state_data.code_verifier])
    /\ UNCHANGED <<now, user_tokens, upload_operations, issued>>

\* bodies of a 200 answer of the token endpoint.  refreshes: which of
\* "absent", "null", "new" the refresh_token field may be; expires: the
\* expires_in fragments ({} when the field is absent)
TokenBodies(access, refresh, refreshes, expires) ==
    LET base == {[access_token |-> access] : k \in refreshes \cap {"absent"}}
                \cup {[access_token |-> access, refresh_token |-> None] :
                        k \in refreshes \cap {"null"}}
                \cup {[access_token |-> access, refresh_token |-> refresh] :
                        k \in refreshes \cap {"new"}}
    IN {Update(b, e) : b \in base, e \in expires}

\* answers of the token endpoint to grant_type=authorization_code
ExchangeAnswers(state, refreshes, expires) ==
    {[status_code |-> 400]} \cup
    {[status_code |-> 200, json |-> b] :
        b \in TokenBodies(AccessToken(state, 0), RefreshToken(state, 0),
                          refreshes, expires)}

\* a failed exchange drops the stored Credential
oauth_callback_exchanged_clearing(r, response) ==
    /\ rq[r].pc = "cb_exchange"
    /\ rq' = IF response.status_code # 200
             THEN Return(r, "callback", rq[r].inp, rq[r].calls,
                         [code |-> 400, error |-> "Token exchange failed"])
             ELSE Await(r, "cb_userinfo", "callback", rq[r].inp,
                        Append(rq[r].calls, [to |-> "userinfo"]),
                        Put(rq[r].loc, "token_data", response.json))
    /\ user_tokens' = IF response.status_code # 200 THEN EmptyDict ELSE user_tokens
    /\ UNCHANGED <<now, oauth_states, upload_operations, issued, hist>>

oauth_callback_exchanged(r, response) ==
    /\ rq[r].pc = "cb_exchange"
    /\ rq' = IF response.status_code # 200
             THEN Return(r, "callback", rq[r].inp, rq[r].calls,
                         [code |-> 400, error |-> "Token exchange failed"])
             ELSE Await(r, "cb_userinfo", "callback", rq[r].inp,
                        Append(rq[r].calls, [to |-> "userinfo"]),
                        Put(rq[r].loc, "token_data", response.json))
    /\ UNCHANGED <<now, oauth_states, user_tokens, upload_operations, issued, hist>>

\* answers of the userinfo endpoint for the access token of authorization a;
\* profiles: which of "denied", "empty", "full" it may answer
UserinfoAnswers(a, profiles) ==
    {[status_code |-> 401] : k \in profiles \cap {"denied"}}
    \cup {[status_code |-> 200, json |-> EmptyDict] : k \in profiles \cap {"empty"}}
    \cup {[status_code |-> 200,
           json |-> [sub |-> ToString(a), preferred_username |-> "builder",
                     name |-> "Builder"]] : k \in profiles \cap {"full"}}

\* a refused identity fetch fails the callback and commits nothing
oauth_callback_userinfo_strict(r, user_response) ==
    /\ rq[r].pc = "cb_userinfo"
    /\ LET token_data == rq[r].loc.token_data
           user_info == IF user_response.status_code = 200
                        THEN user_response.json ELSE EmptyDict
       IN IF user_response.status_code # 200
          THEN /\ UNCHANGED user_tokens
               /\ rq' = Return(r, "callback", rq[r].inp, rq[r].calls,
                               [code |-> 400, error |-> "Identity fetch failed"])
          ELSE /\ user_tokens' = Update(user_tokens,
                     [access_token |-> token_data.access_token,
                      refresh_token |-> Get(token_data, "refresh_token", None),
                      expires_at |-> now + Get(token_data, "expires_in", DefaultExpiresIn),
                      user_info |-> [userId |-> Get(user_info, "sub", ""),
                                     username |-> Get(user_info, "preferred_username", ""),
                                     displayName |-> Get(user_info, "name", "")]])
               /\ rq' = Return(r, "callback", rq[r].inp, rq[r].calls,
                               [code |-> 200,
                                display_name |-> Get(user_info, "name",
                                     Get(user_info, "preferred_username", "User"))])
    /\ UNCHANGED <<now, oauth_states, upload_operations, issued, hist>>

oauth_callback_userinfo(r, user_response) ==
    /\ rq[r].pc = "cb_userinfo"
    /\ LET token_data == rq[r].loc.token_data
           user_info == IF user_response.status_code = 200
                        THEN user_response.json ELSE EmptyDict
       IN /\ user_tokens' = Update(user_tokens,
                [access_token |-> token_data.access_token,
                 refresh_token |-> Get(token_data, "refresh_token", None),
                 expires_at |-> now + Get(token_data, "expires_in", DefaultExpiresIn),
                 user_info |-> [userId |-> Get(user_info, "sub", ""),
                                username |-> Get(user_info, "preferred_username", ""),
                                displayName |-> Get(user_info, "name", "")]])
          /\ rq' = Return(r, "callback", rq[r].inp, rq[r].calls,
                          [code |-> 200,
                           display_name |-> Get(user_info, "name",
                                Get(user_info, "preferred_username", "User"))])
    /\ UNCHANGED <<now, oauth_states, upload_operations, issued, hist>>

(***************************************************************************)
(* Token manager: refresh_access_token and get_valid_access_token.         *)
(* get_valid_access_token is called first thing by /import and by          *)
(* /upload-status; it suspends the handler only when a refresh request is  *)
(* sent.                                                                   *)
(***************************************************************************)
\* what get_valid_access_token does up to its return or its first await:
\*   "none"    returns None (no access token, or refresh_access_token
\*             returned False without a request: no refresh token)
\*   "refresh" refresh_access_token sends the refresh request
\*   "token"   returns user_tokens["access_token"]
\* the lookahead compared with <=
get_valid_access_token_inclusive ==
    IF Get(user_tokens, "access_token", None) = None THEN "none"
    ELSE IF Get(user_tokens, "expires_at", 0) <= now + RefreshLookahead
         THEN IF Get(user_tokens, "refresh_token", None) = None
              THEN "none" ELSE "refresh"
         ELSE "token"

get_valid_access_token ==
    IF Get(user_tokens, "access_token", None) = None THEN "none"
    ELSE IF Get(user_tokens, "expires_at", 0) < now + RefreshLookahead
         THEN IF Get(user_tokens, "refresh_token", None) = None
              THEN "none" ELSE "refresh"
         ELSE "token"

RefreshCall == [to |-> "token_refresh", refresh_token |-> user_tokens["refresh_token"]]

\* answers of the token endpoint to grant_type=refresh_token
RefreshAnswers(sent, refreshes, expires) ==
    {[status_code |-> 400]} \cup
    {[status_code |-> 200, json |-> b] :
        b \in TokenBodies(AccessToken(AuthOf(sent), 1), RefreshToken(AuthOf(sent), 1),
                          refreshes, expires)}

\* a refused refresh drops the refresh token
refresh_access_token_forgetful(response) ==
    IF response.status_code # 200
    THEN [outcome |-> "failed", tokens |-> Remove(user_tokens, {"refresh_token"})]
    ELSE IF "refresh_token" \notin DOMAIN user_tokens
    THEN [outcome |-> "raised", tokens |-> user_tokens]
    ELSE [outcome |-> "ok",
          tokens |-> Update(user_tokens,
             [access_token |-> response.json.access_token,
              refresh_token |-> Get(response.json, "refresh_token",
                                    user_tokens["refresh_token"]),
              expires_at |-> now + Get(response.json, "expires_in", DefaultExpiresIn)])]

\* refresh_access_token from the answer on: "ok" with the updated dict,
\* "failed" (returns False), or "raised" (the KeyError of
\* user_tokens["refresh_token"], evaluated as the default of data.get)
refresh_access_token(response) ==
    IF response.status_code # 200
    THEN [outcome |-> "failed", tokens |-> user_tokens]
    ELSE IF "refresh_token" \notin DOMAIN user_tokens
    THEN [outcome |-> "raised", tokens |-> user_tokens]
    ELSE [outcome |-> "ok",
          tokens |-> Update(user_tokens,
             [access_token |-> response.json.access_token,
              refresh_token |-> Get(response.json, "refresh_token",
                                    user_tokens["refresh_token"]),
              expires_at |-> now + Get(response.json, "expires_in", DefaultExpiresIn)])]

InternalError == [code |-> 500, detail |-> "Internal Server Error"]

(***************************************************************************)
(* JSON values of the asset API.  A string, a number and null are tagged;  *)
(* an object is a dict.                                                    *)
(***************************************************************************)
JStr(s) == [t |-> "str", s |-> s]
JNum(n) == [t |-> "num", n |-> n]
JNull == [t |-> "null"]

\* Python str()
Str(j) ==
    CASE j.t = "str" -> j.s
      [] j.t = "num" -> ToString(j.n)
      [] j.t = "null" -> "None"

DashboardUrl(asset_id) ==
    <<"https://create.roblox.com/dashboard/creations/store/", asset_id, "/configure">>

NoAssetIdMessage == "Upload completed but no Asset ID returned"

\* error.get("message", "Unknown error")
ErrorMessage(error) == Get(error, "message", "Unknown error")

ErrorValues == {[message |-> "boom"], [code |-> 3], EmptyDict}

ResponseValues ==
    {JNull, EmptyDict} \cup
    {[assetId |-> a] : a \in {JStr("999"), JNum(999), JStr(""), JNull}}

\* the operation resources the asset API may answer with, without their path
OperationBodies(errors, responses) ==
    LET dones == {EmptyDict, [done |-> FALSE], [done |-> TRUE]}
        withError == dones \cup {Put(d, "error", e) : d \in dones, e \in errors}
    IN withError \cup {Put(d, "response", x) : d \in withError, x \in responses}

\* the asset id is not tested for emptiness
DoneOutcome_unchecked(data) ==
    LET error == Get(data, "error", EmptyDict)
        asset_response == Get(data, "response", EmptyDict)
    IN IF error # EmptyDict
       THEN [kind |-> "error", error |-> ErrorMessage(error)]
       ELSE IF asset_response = JNull
       THEN [kind |-> "raised"]
       ELSE [kind |-> "asset",
             assetId |-> Str(Get(asset_response, "assetId", JStr("")))]

\* the outcome of a finished operation body, as both handlers compute it:
\* data.get("error"), then str(response.get("assetId", ""))
DoneOutcome(data) ==
    LET error == Get(data, "error", EmptyDict)
        asset_response == Get(data, "response", EmptyDict)
    IN IF error # EmptyDict
       THEN [kind |-> "error", error |-> ErrorMessage(error)]
       ELSE IF asset_response = JNull
       THEN [kind |-> "raised"]
       ELSE LET asset_id == Str(Get(asset_response, "assetId", JStr("")))
            IN IF asset_id = "" THEN [kind |-> "no_asset"]
               ELSE [kind |-> "asset", assetId |-> asset_id]

Pick(d, ks) == [k \in (DOMAIN d) \cap ks |-> d[k]]

(***************************************************************************)
(* GET /upload-status/{operation_id}                                       *)
(* In a modelled response a key whose value is None is left out.           *)
(***************************************************************************)
OperationIds == {<<"abc123">>, <<"def456">>}

ExpiredOperations(t) ==
    {k \in DOMAIN upload_operations :
        upload_operations[k].created_at < t - OperationTTL}

Processing(operation_id) ==
    [code |-> 200, success |-> TRUE,
     result |-> [operationId |-> operation_id, status |-> "processing"]]

\* the cached status is not looked up
PollContinue_nocache(r, operation_id, calls, tokens, operations) ==
    Await(r, "poll_query", "poll", operation_id,
          Append(calls, [to |-> "operation_status",
                         operation_id |-> operation_id,
                         access_token |-> tokens["access_token"]]),
          EmptyDict)

\* the cached answer carries the status alone
PollContinue_bare(r, operation_id, calls, tokens, operations) ==
    LET local_status == Get(operations, operation_id, None)
    IN IF local_status # None /\ local_status.status \in {"completed", "failed"}
       THEN Return(r, "poll", operation_id, calls,
                [code |-> 200, success |-> (local_status.status = "completed"),
                 result |-> [operationId |-> operation_id,
                             status |-> local_status.status]])
       ELSE Await(r, "poll_query", "poll", operation_id,
                  Append(calls, [to |-> "operation_status",
                                 operation_id |-> operation_id,
                                 access_token |-> tokens["access_token"]]),
                  EmptyDict)

\* upload_status from the cached-status lookup on
PollContinue(r, operation_id, calls, tokens, operations) ==
    LET local_status == Get(operations, operation_id, None)
    IN IF local_status # None /\ local_status.status \in {"completed", "failed"}
       THEN Return(r, "poll", operation_id, calls,
                [code |-> 200, success |-> (local_status.status = "completed"),
                 result |-> Update([operationId |-> operation_id,
                                    status |-> local_status.status],
                                   Pick(local_status, {"assetId", "assetUrl", "error"}))])
       ELSE Await(r, "poll_query", "poll", operation_id,
                  Append(calls, [to |-> "operation_status",
                                 operation_id |-> operation_id,
                                 access_token |-> tokens["access_token"]]),
                  EmptyDict)

PollNotConnected(r, operation_id, calls) ==
    Return(r, "poll", operation_id, calls,
           [code |-> 401, detail |-> "Not connected to Roblox"])

upload_status(r, operation_id) ==
    /\ Free(r)
    /\ LET operations == Remove(upload_operations, ExpiredOperations(now))
       IN /\ upload_operations' = operations
          /\ rq' = CASE get_valid_access_token = "none" ->
                          PollNotConnected(r, operation_id, << >>)
                     [] get_valid_access_token = "refresh" ->
                          Await(r, "poll_refresh", "poll", operation_id,
                                <<RefreshCall>>,
                                [refresh_token |-> user_tokens["refresh_token"]])
                     [] get_valid_access_token = "token" ->
                          PollContinue(r, operation_id, << >>, user_tokens, operations)
    /\ UNCHANGED <<now, oauth_states, user_tokens, issued, hist>>

upload_status_refreshed(r, response) ==
    /\ rq[r].pc = "poll_refresh"
    /\ LET res == refresh_access_token(response)
       IN /\ user_tokens' = res.tokens
          /\ rq' = CASE res.outcome = "failed" ->
                          PollNotConnected(r, rq[r].inp, rq[r].calls)
                     [] res.outcome = "raised" ->
                          Return(r, "poll", rq[r].inp, rq[r].calls, InternalError)
                     [] res.outcome = "ok" ->
                          PollContinue(r, rq[r].inp, rq[r].calls, res.tokens,
                                       upload_operations)
    /\ UNCHANGED <<now, oauth_states, upload_operations, issued, hist>>

\* answers of the operation-status endpoint
PollAnswers(bodies) ==
    {[timeout |-> TRUE], [timeout |-> FALSE, status_code |-> 404]} \cup
    {[timeout |-> FALSE, status_code |-> 200, json |-> b] : b \in bodies}

\* the result is returned and the shadow left as it was
PollRecord_unsaved(r, entries, success) ==
    /\ UNCHANGED upload_operations
    /\ rq' = Return(r, "poll", rq[r].inp, rq[r].calls,
                    [code |-> 200, success |-> success,
                     result |-> Update([operationId |-> rq[r].inp], entries)])

\* upload_operations[operation_id].update(entries) and the result returned
PollRecord(r, entries, success) ==
    LET operation_id == rq[r].inp
    IN IF operation_id \notin DOMAIN upload_operations
       THEN /\ rq' = Return(r, "poll", operation_id, rq[r].calls, InternalError)
            /\ UNCHANGED upload_operations
       ELSE /\ upload_operations' =
                  [upload_operations EXCEPT ![operation_id] = Update(@, entries)]
            /\ rq' = Return(r, "poll", operation_id, rq[r].calls,
                        [code |-> 200, success |-> success,
                         result |-> Update([operationId |-> operation_id], entries)])

\* a non-200 answer of the status endpoint fails the operation
upload_status_answered_strict(r, response) ==
    /\ rq[r].pc = "poll_query"
    /\ IF response.timeout
       THEN /\ rq' = Return(r, "poll", rq[r].inp, rq[r].calls, Processing(rq[r].inp))
            /\ UNCHANGED upload_operations
       ELSE IF response.status_code # 200
       THEN PollRecord(r, [status |-> "failed", error |-> "Unknown error"], FALSE)
       ELSE LET data == response.json
                outcome == DoneOutcome(data)
            IN IF Get(data, "done", FALSE)
               THEN CASE outcome.kind = "error" ->
                            PollRecord(r, [status |-> "failed", error |-> outcome.error],
                                       FALSE)
                      [] outcome.kind = "raised" ->
                            /\ rq' = Return(r, "poll", rq[r].inp, rq[r].calls,
                                            InternalError)
                            /\ UNCHANGED upload_operations
                      [] outcome.kind = "no_asset" ->
                            PollRecord(r, [status |-> "failed",
                                           error |-> NoAssetIdMessage], FALSE)
                      [] outcome.kind = "asset" ->
                            PollRecord(r, [status |-> "completed",
                                           assetId |-> outcome.assetId,
                                           assetUrl |-> DashboardUrl(outcome.assetId)],
                                       TRUE)
               ELSE IF Get(data, "error", EmptyDict) # EmptyDict
               THEN PollRecord(r, [status |-> "failed",
                                   error |-> ErrorMessage(data.error)], FALSE)
               ELSE /\ rq' = Return(r, "poll", rq[r].inp, rq[r].calls,
                                    Processing(rq[r].inp))
                    /\ UNCHANGED upload_operations
    /\ UNCHANGED <<now, oauth_states, user_tokens, issued, hist>>

upload_status_answered(r, response) ==
    /\ rq[r].pc = "poll_query"
    /\ IF response.timeout \/ response.status_code # 200
       THEN /\ rq' = Return(r, "poll", rq[r].inp, rq[r].calls, Processing(rq[r].inp))
            /\ UNCHANGED upload_operations
       ELSE LET data == response.json
                outcome == DoneOutcome(data)
            IN IF Get(data, "done", FALSE)
               THEN CASE outcome.kind = "error" ->
                            PollRecord(r, [status |-> "failed", error |-> outcome.error],
                                       FALSE)
                      [] outcome.kind = "raised" ->
                            /\ rq' = Return(r, "poll", rq[r].inp, rq[r].calls,
                                            InternalError)
                            /\ UNCHANGED upload_operations
                      [] outcome.kind = "no_asset" ->
                            PollRecord(r, [status |-> "failed",
                                           error |-> NoAssetIdMessage], FALSE)
                      [] outcome.kind = "asset" ->
                            PollRecord(r, [status |-> "completed",
                                           assetId |-> outcome.assetId,
                                           assetUrl |-> DashboardUrl(outcome.assetId)],
                                       TRUE)
               ELSE IF Get(data, "error", EmptyDict) # EmptyDict
               THEN PollRecord(r, [status |-> "failed",
                                   error |-> ErrorMessage(data.error)], FALSE)
               ELSE /\ rq' = Return(r, "poll", rq[r].inp, rq[r].calls,
                                    Processing(rq[r].inp))
                    /\ UNCHANGED upload_operations
    /\ UNCHANGED <<now, oauth_states, user_tokens, issued, hist>>

(***************************************************************************)
(* POST /import                                                            *)
(* A file name is <<stem, extension as written>>; a downloaded payload is  *)
(* raw bytes or an archive with its names in directory order.  modelUrl,   *)
(* displayName and description are passed through and left out.            *)
(***************************************************************************)
Formats == {"fbx", "glb", "gltf", "obj", "stl"}

\* str.lower() on the extensions the model uses
Lower(ext) ==
    CASE ext = ".GLB" -> ".glb"
      [] ext = ".FBX" -> ".fbx"
      [] OTHER -> ext

\* name.lower().endswith(ext)
EndsWith(name, ext) == Lower(name[2]) = ext

\* target_extensions.get(file_format, [".glb", ".fbx"])
target_extensions(file_format) ==
    CASE file_format = "fbx" -> <<".fbx">>
      [] file_format = "glb" -> <<".glb">>
      [] file_format = "gltf" -> <<".gltf", ".glb">>
      [] file_format = "obj" -> <<".obj">>
      [] OTHER -> <<".glb", ".fbx">>

Matches(name, extensions) ==
    \E i \in 1..Len(extensions) : EndsWith(name, extensions[i])

\* the last name with an accepted extension is taken
FirstMatch_last(names, extensions) ==
    LET hits == {i \in 1..Len(names) : Matches(names[i], extensions)}
    IN IF hits = {} THEN None
       ELSE names[CHOOSE i \in hits : \A j \in hits : i >= j]

\* the first name of zf.namelist() with an accepted extension, or None
FirstMatch(names, extensions) ==
    LET hits == {i \in 1..Len(names) : Matches(names[i], extensions)}
    IN IF hits = {} THEN None
       ELSE names[CHOOSE i \in hits : \A j \in hits : i <= j]

\* the format re-derived from the extracted name
InferFormat(model_file, file_format) ==
    CASE EndsWith(model_file, ".glb") -> "glb"
      [] EndsWith(model_file, ".gltf") -> "gltf"
      [] EndsWith(model_file, ".fbx") -> "fbx"
      [] EndsWith(model_file, ".obj") -> "obj"
      [] OTHER -> file_format

format_to_content_type(file_format) ==
    CASE file_format = "fbx" -> "model/fbx"
      [] file_format = "glb" -> "model/gltf-binary"
      [] file_format = "gltf" -> "model/gltf+json"
      [] file_format = "obj" -> "model/obj"
      [] OTHER -> "model/gltf-binary"

file_ext_map(file_format) ==
    CASE file_format = "fbx" -> "model.fbx"
      [] file_format = "glb" -> "model.glb"
      [] file_format = "gltf" -> "model.gltf"
      [] file_format = "obj" -> "model.obj"
      [] OTHER -> "model.glb"

ImportError(r, calls, code, detail) ==
    Return(r, "import", rq[r].inp, calls, [code |-> code, detail |-> detail])

\* the user id is not tested
ImportContinue_nocheck(r, request, calls, tokens) ==
    Await(r, "imp_download", "import", request,
          Append(calls, [to |-> "download"]),
          [access_token |-> tokens["access_token"],
           user_id |-> Get(Get(tokens, "user_info", EmptyDict), "userId", "")])

\* import_model from the user id lookup on
ImportContinue(r, request, calls, tokens) ==
    LET access_token == tokens["access_token"]
        user_id == Get(Get(tokens, "user_info", EmptyDict), "userId", "")
    IN IF user_id = ""
       THEN Return(r, "import", request, calls,
                   [code |-> 400, detail |-> "User ID not found"])
       ELSE Await(r, "imp_download", "import", request,
                  Append(calls, [to |-> "download"]),
                  [access_token |-> access_token, user_id |-> user_id])

import_model(r, request) ==
    /\ Free(r)
    /\ rq' = CASE get_valid_access_token = "none" ->
                    Return(r, "import", request, << >>,
                           [code |-> 401, detail |-> "Not connected to Roblox"])
               [] get_valid_access_token = "refresh" ->
                    Await(r, "imp_refresh", "import", request, <<RefreshCall>>,
                          [refresh_token |-> user_tokens["refresh_token"]])
               [] get_valid_access_token = "token" ->
                    ImportContinue(r, request, << >>, user_tokens)
    /\ UNCHANGED <<now, oauth_states, user_tokens, upload_operations, issued, hist>>

import_model_refreshed(r, response) ==
    /\ rq[r].pc = "imp_refresh"
    /\ LET res == refresh_access_token(response)
       IN /\ user_tokens' = res.tokens
          /\ rq' = CASE res.outcome = "failed" ->
                          ImportError(r, rq[r].calls, 401, "Not connected to Roblox")
                     [] res.outcome = "raised" ->
                          Return(r, "import", rq[r].inp, rq[r].calls, InternalError)
                     [] res.outcome = "ok" ->
                          ImportContinue(r, rq[r].inp, rq[r].calls, res.tokens)
    /\ UNCHANGED <<now, oauth_states, upload_operations, issued, hist>>

\* answers of the model URL
DownloadAnswers(payloads) ==
    {[timeout |-> TRUE], [timeout |-> FALSE, status_code |-> 404]} \cup
    {[timeout |-> FALSE, status_code |-> 200, content |-> c] : c \in payloads}

import_model_downloaded(r, model_response) ==
    /\ rq[r].pc = "imp_download"
    /\ rq' =
         IF model_response.timeout
         THEN ImportError(r, rq[r].calls, 408, "Model download timed out")
         ELSE IF model_response.status_code # 200
         THEN ImportError(r, rq[r].calls, 400, "Failed to download model")
         ELSE LET raw_data == model_response.content
                  requested == rq[r].inp.format
                  model_file == FirstMatch(raw_data.names, target_extensions(requested))
                  file_format == IF raw_data.is_zipfile
                                 THEN InferFormat(model_file, requested)
                                 ELSE requested
                  model_data == IF raw_data.is_zipfile THEN <<"entry", model_file>>
                                ELSE <<"raw">>
              IN IF raw_data.is_zipfile /\ model_file = None
                 THEN ImportError(r, rq[r].calls, 400, "No model file found in ZIP")
                 ELSE Await(r, "imp_upload", "import", rq[r].inp,
                            Append(rq[r].calls,
                                   [to |-> "assets",
                                    access_token |-> rq[r].loc.access_token,
                                    userId |-> rq[r].loc.user_id,
                                    file_name |-> file_ext_map(file_format),
                                    model_data |-> model_data,
                                    content_type |-> format_to_content_type(file_format)]),
                            EmptyDict)
    /\ UNCHANGED <<now, oauth_states, user_tokens, upload_operations, issued, hist>>

\* split("/")[0]: what precedes the first "/"
RECURSIVE LastSegment_first(_)
LastSegment_first(path) ==
    IF path = << >> THEN << >>
    ELSE IF path[1] = "/" THEN << >>
    ELSE <<path[1]>> \o LastSegment_first(Tail(path))

\* operation_path.split("/")[-1]: what follows the last "/" of the path,
\* a path being the sequence of its pieces, each "/" a piece of its own
RECURSIVE LastSegment(_)
LastSegment(path) ==
    IF path = << >> THEN << >>
    ELSE IF path[Len(path)] = "/" THEN << >>
    ELSE Append(LastSegment(SubSeq(path, 1, Len(path) - 1)), path[Len(path)])

\* answers of the asset-creation endpoint
UploadAnswers(paths, bodies) ==
    {[timeout |-> TRUE], [timeout |-> FALSE, status_code |-> 403]} \cup
    {[timeout |-> FALSE, status_code |-> c, json |-> b] :
        c \in {200, 201}, b \in bodies} \cup
    {[timeout |-> FALSE, status_code |-> c, json |-> Put(b, "path", p)] :
        c \in {200, 201}, b \in bodies, p \in paths}

\* a missing path defaults to the operation id "unknown"
import_model_uploaded_unknown(r, upload_response) ==
    /\ rq[r].pc = "imp_upload"
    /\ IF upload_response.timeout
       THEN /\ rq' = ImportError(r, rq[r].calls, 408, "Upload to Roblox timed out")
            /\ UNCHANGED upload_operations
       ELSE IF upload_response.status_code \notin {200, 201}
       THEN /\ rq' = ImportError(r, rq[r].calls, upload_response.status_code,
                                 "Roblox upload failed")
            /\ UNCHANGED upload_operations
       ELSE LET result == upload_response.json
                operation_path == Get(result, "path", <<"unknown">>)
                operation_id == LastSegment(operation_path)
                created == [status |-> "processing", created_at |-> now]
                outcome == DoneOutcome(result)
            IN IF operation_path = << >>
               THEN /\ rq' = ImportError(r, rq[r].calls, 502,
                                "Roblox did not return an operation path")
                    /\ UNCHANGED upload_operations
               ELSE IF ~Get(result, "done", FALSE)
               THEN /\ upload_operations' = Put(upload_operations, operation_id, created)
                    /\ rq' = Return(r, "import", rq[r].inp, rq[r].calls,
                                    Processing(operation_id))
               ELSE CASE outcome.kind = "error" ->
                           /\ upload_operations' = Put(upload_operations, operation_id,
                                Update(created, [status |-> "failed",
                                                 error |-> outcome.error]))
                           /\ rq' = ImportError(r, rq[r].calls, 400, outcome.error)
                      [] outcome.kind = "raised" ->
                           /\ upload_operations' =
                                Put(upload_operations, operation_id, created)
                           /\ rq' = Return(r, "import", rq[r].inp, rq[r].calls,
                                           InternalError)
                      [] outcome.kind = "no_asset" ->
                           /\ upload_operations' =
                                Put(upload_operations, operation_id, created)
                           /\ rq' = ImportError(r, rq[r].calls, 400, NoAssetIdMessage)
                      [] outcome.kind = "asset" ->
                           /\ upload_operations' = Put(upload_operations, operation_id,
                                Update(created,
                                       [status |-> "completed",
                                        assetId |-> outcome.assetId,
                                        assetUrl |-> DashboardUrl(outcome.assetId)]))
                           /\ rq' = Return(r, "import", rq[r].inp, rq[r].calls,
                                  [code |-> 200, success |-> TRUE,
                                   result |-> [operationId |-> operation_id,
                                               status |-> "completed",
                                               assetId |-> outcome.assetId,
                                               assetUrl |-> DashboardUrl(outcome.assetId)]])
    /\ UNCHANGED <<now, oauth_states, user_tokens, issued, hist>>

import_model_uploaded(r, upload_response) ==
    /\ rq[r].pc = "imp_upload"
    /\ IF upload_response.timeout
       THEN /\ rq' = ImportError(r, rq[r].calls, 408, "Upload to Roblox timed out")
            /\ UNCHANGED upload_operations
       ELSE IF upload_response.status_code \notin {200, 201}
       THEN /\ rq' = ImportError(r, rq[r].calls, upload_response.status_code,
                                 "Roblox upload failed")
            /\ UNCHANGED upload_operations
       ELSE LET result == upload_response.json
                operation_path == Get(result, "path", << >>)
                operation_id == LastSegment(operation_path)
                created == [status |-> "processing", created_at |-> now]
                outcome == DoneOutcome(result)
            IN IF operation_path = << >>
               THEN /\ rq' = ImportError(r, rq[r].calls, 502,
                                "Roblox did not return an operation path")
                    /\ UNCHANGED upload_operations
               ELSE IF ~Get(result, "done", FALSE)
               THEN /\ upload_operations' = Put(upload_operations, operation_id, created)
                    /\ rq' = Return(r, "import", rq[r].inp, rq[r].calls,
                                    Processing(operation_id))
               ELSE CASE outcome.kind = "error" ->
                           /\ upload_operations' = Put(upload_operations, operation_id,
                                Update(created, [status |-> "failed",
                                                 error |-> outcome.error]))
                           /\ rq' = ImportError(r, rq[r].calls, 400, outcome.error)
                      [] outcome.kind = "raised" ->
                           /\ upload_operations' =
                                Put(upload_operations, operation_id, created)
                           /\ rq' = Return(r, "import", rq[r].inp, rq[r].calls,
                                           InternalError)
                      [] outcome.kind = "no_asset" ->
                           /\ upload_operations' =
                                Put(upload_operations, operation_id, created)
                           /\ rq' = ImportError(r, rq[r].calls, 400, NoAssetIdMessage)
                      [] outcome.kind = "asset" ->
                           /\ upload_operations' = Put(upload_operations, operation_id,
                                Update(created,
                                       [status |-> "completed",
                                        assetId |-> outcome.assetId,
                                        assetUrl |-> DashboardUrl(outcome.assetId)]))
                           /\ rq' = Return(r, "import", rq[r].inp, rq[r].calls,
                                  [code |-> 200, success |-> TRUE,
                                   result |-> [operationId |-> operation_id,
                                               status |-> "completed",
                                               assetId |-> outcome.assetId,
                                               assetUrl |-> DashboardUrl(outcome.assetId)]])
    /\ UNCHANGED <<now, oauth_states, user_tokens, issued, hist>>

(***************************************************************************)
(* POST /disconnect                                                        *)
(***************************************************************************)
disconnect(r) ==
    /\ Free(r)
    /\ IF Get(user_tokens, "access_token", None) # None
       THEN /\ rq' = Await(r, "disc_revoke", "disconnect", None,
                           <<[to |-> "token_revoke",
                              token |-> user_tokens["access_token"]]>>, EmptyDict)
            /\ UNCHANGED user_tokens
       ELSE /\ user_tokens' = EmptyDict
            /\ rq' = Return(r, "disconnect", None, << >>,
                            [code |-> 200, success |-> TRUE])
    /\ UNCHANGED <<now, oauth_states, upload_operations, issued, hist>>

\* the revoke request returns with any status, or raises
RevokeAnswers == {"ok", "rejected", "raised"}

\* the exception of the revoke request is not caught
disconnect_revoked_raising(r, answer) ==
    /\ rq[r].pc = "disc_revoke"
    /\ IF answer = "raised"
       THEN /\ UNCHANGED user_tokens
            /\ rq' = Return(r, "disconnect", None, rq[r].calls, InternalError)
       ELSE /\ user_tokens' = EmptyDict
            /\ rq' = Return(r, "disconnect", None, rq[r].calls,
                            [code |-> 200, success |-> TRUE])
    /\ UNCHANGED <<now, oauth_states, upload_operations, issued, hist>>

disconnect_revoked(r, answer) ==
    /\ rq[r].pc = "disc_revoke"
    /\ user_tokens' = EmptyDict
    /\ rq' = Return(r, "disconnect", None, rq[r].calls,
                    [code |-> 200, success |-> TRUE])
    /\ UNCHANGED <<now, oauth_states, upload_operations, issued, hist>>

(***************************************************************************)
(* The clock.                                                              *)
(***************************************************************************)
Tick(step, limit) ==
    /\ now + step <= limit
    /\ now' = now + step
    /\ UNCHANGED <<oauth_states, user_tokens, upload_operations, issued, rq, hist>>

(***************************************************************************)
(* The environment: the inputs of the requests and the answers of the      *)
(* remote services, per group of handlers.                                 *)
(***************************************************************************)
ArchiveNames == {<<"model", ".glb">>, <<"Model", ".GLB">>, <<"scene", ".gltf">>,
                 <<"mesh", ".fbx">>, <<"mesh", ".obj">>, <<"textures", ".png">>}

Archives(names) == UNION {[1..n -> names] : n \in 0..MaxEntries}

RawPayload == [is_zipfile |-> FALSE, names |-> << >>]

Zip(names) == [is_zipfile |-> TRUE, names |-> names]

OperationPaths ==
    {<< >>, <<"o", "p", "s", "/", "abc123">>, <<"abc123">>,
     <<"o", "p", "s", "/", "x", "/", "def456">>}

\* paths of one operation, and no path
OnePathSet ==
    {<< >>, <<"abc123">>, <<"o", "p", "s", "/", "abc123">>,
     <<"o", "p", "s", "/", "x", "/", "abc123">>}

AuthHandlers(r, limit, refreshes, expires, profiles) ==
    \/ roblox_authorize(r, "authorize", limit)
    \/ connect(r, limit)
    \/ \E state \in 0..issued : oauth_callback(r, state)
    \/ /\ rq[r].pc = "cb_exchange"
       /\ \E response \in ExchangeAnswers(rq[r].inp, refreshes, expires) :
            oauth_callback_exchanged(r, response)
    \/ /\ rq[r].pc = "cb_userinfo"
       /\ \E response \in UserinfoAnswers(rq[r].inp, profiles) :
            oauth_callback_userinfo(r, response)

SessionHandlers(r) ==
    \/ status(r)
    \/ disconnect(r)
    \/ \E answer \in RevokeAnswers : disconnect_revoked(r, answer)

ImportHandlers(r, formats, payloads, paths, bodies, refreshes, expires) ==
    \/ \E format \in formats : import_model(r, [format |-> format])
    \/ /\ rq[r].pc = "imp_refresh"
       /\ \E response \in RefreshAnswers(rq[r].loc.refresh_token, refreshes, expires) :
            import_model_refreshed(r, response)
    \/ \E response \in DownloadAnswers(payloads) : import_model_downloaded(r, response)
    \/ \E response \in UploadAnswers(paths, bodies) :
            import_model_uploaded(r, response)

PollHandlers(r, bodies, refreshes, expires) ==
    \/ \E operation_id \in OperationIds : upload_status(r, operation_id)
    \/ /\ rq[r].pc = "poll_refresh"
       /\ \E response \in RefreshAnswers(rq[r].loc.refresh_token, refreshes, expires) :
            upload_status_refreshed(r, response)
    \/ \E response \in PollAnswers(bodies) : upload_status_answered(r, response)

(***************************************************************************)
(* Specifications.                                                         *)
(***************************************************************************)
Init ==
    /\ now = 0
    /\ oauth_states = EmptyDict
    /\ user_tokens = EmptyDict
    /\ upload_operations = EmptyDict
    /\ issued = 0
    /\ rq = [r \in Req |-> IdleSlot]
    /\ hist = [s \in 0..(MaxStates + 1) |-> NoHist]

AllRefreshes == {"absent", "null", "new"}
AllExpires == {EmptyDict, [expires_in |-> 30], [expires_in |-> 60]}
AllProfiles == {"denied", "empty", "full"}
AllBodies == OperationBodies(ErrorValues, ResponseValues)
FewBodies == OperationBodies({}, {[assetId |-> JStr("999")]})
SubmitBodies == OperationBodies({[message |-> "boom"]}, {EmptyDict, [assetId |-> JNum(999)]})

\* the authorization flow and the session, one request at a time
NextAuth ==
    \/ Tick(TickStep, MaxTimeAuth)
    \/ AuthHandlers(1, MaxStates, AllRefreshes, AllExpires, AllProfiles)
    \/ SessionHandlers(1)

SpecAuth == Init /\ [][NextAuth]_vars

\* the upload protocol behind one kind of authorization, one request at a time
NextUpload ==
    \/ Tick(2 * TickStep, MaxTime)
    \/ AuthHandlers(1, 1, {"new"}, {EmptyDict}, AllProfiles)
    \/ ImportHandlers(1, {"glb"}, {RawPayload}, OnePathSet, SubmitBodies,
                      {"new"}, {EmptyDict})
    \/ PollHandlers(1, AllBodies, {"new"}, {EmptyDict})

SpecUpload == Init /\ [][NextUpload]_vars

\* the token manager under every kind of Credential, one request at a time
NextToken ==
    \/ Tick(TickStep, MaxTimeAuth)
    \/ AuthHandlers(1, 1, AllRefreshes, AllExpires, {"full"})
    \/ ImportHandlers(1, {"glb"}, {RawPayload}, {<<"abc123">>}, FewBodies,
                      AllRefreshes, AllExpires)
    \/ PollHandlers(1, FewBodies, AllRefreshes, AllExpires)

SpecToken == Init /\ [][NextToken]_vars

\* the authorization flow with overlapping requests
NextCallbacks ==
    \/ Tick(TickStep, MaxTimeAuth)
    \/ \E r \in Req : AuthHandlers(r, MaxStates, {"new"}, {EmptyDict}, {"full"})

SpecCallbacks == Init /\ [][NextCallbacks]_vars

\* the payloads a model URL may serve: a raw file, or an archive
Payloads == {RawPayload} \cup {Zip(names) : names \in Archives(ArchiveNames)}

\* /import of every format and payload, one request at a time
NextArchive ==
    \/ Tick(TickStep, MaxTimeAuth)
    \/ AuthHandlers(1, 1, {"new"}, {EmptyDict}, {"full"})
    \/ ImportHandlers(1, Formats, Payloads, {<<"abc123">>}, {EmptyDict},
                      {"new"}, {EmptyDict})

SpecArchive == Init /\ [][NextArchive]_vars

\* the status endpoint answers processing or completed
RaceBodies == {EmptyDict, [done |-> TRUE, response |-> [assetId |-> JStr("999")]]}

\* /import and /upload-status with overlapping requests
NextRace ==
    \/ Tick(TickStep, MaxTimeAuth)
    \/ AuthHandlers(1, 1, {"new"}, {EmptyDict}, {"full"})
    \/ \E r \in Req :
          ImportHandlers(r, {"glb"}, {RawPayload}, {<<"abc123">>}, {EmptyDict},
                         {"absent", "new"}, {EmptyDict})
    \/ \E r \in Req : PollHandlers(r, RaceBodies, {"absent", "new"}, {EmptyDict})

SpecRace == Init /\ [][NextRace]_vars

\* the session and /import behind every kind of identity, one request at a time
NextIdentity ==
    \/ Tick(TickStep, MaxTimeAuth)
    \/ AuthHandlers(1, MaxStates, {"absent", "new"}, {EmptyDict}, AllProfiles)
    \/ SessionHandlers(1)
    \/ ImportHandlers(1, {"glb"}, {RawPayload}, {<<"abc123">>}, {EmptyDict},
                      {"new"}, {EmptyDict})

SpecIdentity == Init /\ [][NextIdentity]_vars

\* the status endpoint answers processing, completed, or an error
PollRaceBodies ==
    {EmptyDict,
     [done |-> TRUE, response |-> [assetId |-> JStr("999")]],
     [error |-> [message |-> "boom"]]}

\* polls that overlap, of operations submitted one at a time
NextPolls ==
    \/ Tick(TickStep, MaxTimeAuth)
    \/ AuthHandlers(1, 1, {"new"}, {EmptyDict}, {"full"})
    \/ ImportHandlers(1, {"glb"}, {RawPayload}, {<<"abc123">>}, {EmptyDict},
                      {"new"}, {EmptyDict})
    \/ \E r \in Req : PollHandlers(r, PollRaceBodies, {"new"}, {EmptyDict})

SpecPolls == Init /\ [][NextPolls]_vars

\* callbacks, refreshes and disconnects that overlap
NextSession ==
    \/ Tick(TickStep, MaxTimeAuth)
    \/ \E r \in Req : AuthHandlers(r, MaxStates, {"new"}, {EmptyDict}, {"full"})
    \/ \E r \in Req : SessionHandlers(r)
    \/ \E r \in Req : PollHandlers(r, {EmptyDict}, {"new"}, {EmptyDict})

SpecSession == Init /\ [][NextSession]_vars

\* the body of a finished operation
DoneBody == [done |-> TRUE, response |-> [assetId |-> JStr("999")]]

\* the upload protocol with a remote that may finish every operation
NextLive ==
    \/ Tick(2 * TickStep, MaxTime)
    \/ AuthHandlers(1, 1, {"new"}, {EmptyDict}, {"full"})
    \/ ImportHandlers(1, {"glb"}, {RawPayload}, {<<"abc123">>}, {EmptyDict},
                      {"new"}, {EmptyDict})
    \/ PollHandlers(1, {DoneBody}, {"new"}, {EmptyDict})

\* the frontend polls the operation again
PollsAgain == upload_status(1, <<"abc123">>)

\* the token endpoint grants the refresh of a poll
RefreshGranted ==
    /\ rq[1].pc = "poll_refresh"
    /\ rq[1].inp = <<"abc123">>
    /\ \E response \in RefreshAnswers(rq[1].loc.refresh_token, {"new"}, {EmptyDict}) :
          response.status_code = 200 /\ upload_status_refreshed(1, response)

\* the status endpoint answers that the operation is done
AnsweredDone ==
    /\ rq[1].pc = "poll_query"
    /\ rq[1].inp = <<"abc123">>
    /\ upload_status_answered(1, [timeout |-> FALSE, status_code |-> 200,
                                  json |-> DoneBody])

\* the remote request a handler is suspended on returns, or times out
Resumed == ~Free(1) /\ NextLive

\* a suspended handler is resumed, the frontend keeps polling, refreshes are
\* eventually granted and status queries are eventually answered done
SpecLive ==
    /\ Init /\ [][NextLive]_vars
    /\ WF_vars(Resumed)
    /\ SF_vars(PollsAgain) /\ SF_vars(RefreshGranted) /\ SF_vars(AnsweredDone)

(***************************************************************************)
(* Properties of the authorization state store.                            *)
(***************************************************************************)
\* the callback of slot r passed the state check and sent the token exchange
Passed(r) ==
    /\ rq'[r].pc = "cb_exchange"
    /\ rq'[r].calls = <<[to |-> "token_exchange"]>>

\* the callback of slot r failed with the invalid-state error, sending nothing
RejectedInvalid(r) ==
    /\ rq'[r].pc = "done"
    /\ rq'[r].resp = [code |-> 400, error |-> "Invalid state parameter"]
    /\ rq'[r].calls = << >>

\* C1 as stated: of the callbacks carrying an issued state, exactly the
\* first one passes the state check and every later one is rejected.
C1_ExactlyFirstPasses ==
    \A s \in 1..MaxStates :
        /\ hist[s].first \in {"none", "passed"}
        /\ ~hist[s].later_passed

\* C1 amended: a callback carrying an issued state passes the state check
\* and goes on to the token exchange iff it is the first callback with that
\* state and no expiry sweep removed the attempt before it; every other
\* callback is rejected as invalid state (400) and sends no token exchange.
C1_AtMostFirstPasses ==
    [][\A r \in Req : \A s \in 1..MaxStates :
          (s <= issued /\ oauth_callback(r, s)) =>
              IF hist[s].first = "none" /\ ~hist[s].swept
              THEN Passed(r) ELSE RejectedInvalid(r)]_vars

\* a first callback passed and a later one with the same state was rejected
C1_Witness ==
    \E r \in Req :
        /\ rq[r].kind = "callback" /\ rq[r].pc = "done"
        /\ rq[r].resp.code = 400 /\ rq[r].calls = << >>
        /\ rq[r].inp \in 1..MaxStates
        /\ hist[rq[r].inp].first = "passed"

\* C2 as stated: a callback whose state is forged (0), replayed (a callback
\* with it was handled before) or expired (its attempt was created more than
\* 600 seconds before) fails with the invalid-state error, sends no token
\* exchange and leaves the Credential unchanged.
C2_StaleStateRejected ==
    [][\A r \in Req : \A s \in 0..MaxStates :
          ( /\ s <= issued
            /\ \/ s = 0
               \/ hist[s].first # "none"
               \/ hist[s].swept
               \/ /\ s \in DOMAIN oauth_states
                  /\ oauth_states[s].created_at < now - StateTTL
            /\ oauth_callback(r, s) )
          => (RejectedInvalid(r) /\ user_tokens' = user_tokens)]_vars

\* C3: a sweep of /roblox/authorize leaves no attempt created more than 600
\* seconds before it and keeps every attempt created within the last 600
\* seconds; a callback with a swept state is rejected.
C3_SweepRemovesExactlyExpired ==
    [][\A r \in Req :
          /\ (roblox_authorize(r, "authorize", MaxStates) \/ connect(r, MaxStates)) =>
                /\ \A k \in DOMAIN oauth_states' :
                      oauth_states'[k].created_at >= now - StateTTL
                /\ \A k \in DOMAIN oauth_states :
                      oauth_states[k].created_at >= now - StateTTL =>
                          /\ k \in DOMAIN oauth_states'
                          /\ oauth_states'[k] = oauth_states[k]
          /\ \A s \in 1..MaxStates :
                (hist[s].swept /\ oauth_callback(r, s)) => RejectedInvalid(r)]_vars

\* a sweep removed an attempt and a callback with its state was rejected
C3_Witness ==
    \E s \in 1..MaxStates, r \in Req :
        /\ hist[s].swept
        /\ hist[s].first = "rejected"
        /\ rq[r].kind = "callback" /\ rq[r].pc = "done"
        /\ rq[r].inp = s /\ rq[r].resp.code = 400

(***************************************************************************)
(* Properties of the token manager.                                        *)
(***************************************************************************)
RefreshCalls(calls) ==
    Cardinality({i \in 1..Len(calls) : calls[i].to = "token_refresh"})

\* slot r starts a handler that calls get_valid_access_token
CallsTokenManager(r) ==
    \/ \E format \in Formats : import_model(r, [format |-> format])
    \/ \E operation_id \in OperationIds : upload_status(r, operation_id)

CredentialPresent == Get(user_tokens, "access_token", None) # None

NearExpiry == Get(user_tokens, "expires_at", 0) < now + 60

\* C4 as stated: a call of get_valid_access_token with a Credential present
\* sends exactly one refresh request when expiresAt < now + 60, none otherwise.
C4_OneRefreshWhenNearExpiry ==
    [][\A r \in Req :
          (CredentialPresent /\ CallsTokenManager(r)) =>
              RefreshCalls(rq'[r].calls) = IF NearExpiry THEN 1 ELSE 0]_vars

\* C4 amended: a call of get_valid_access_token with a Credential present
\* sends exactly one refresh request when expiresAt < now + 60 and the
\* Credential holds a refresh token, and none otherwise (none, in
\* particular, when the Credential holds no refresh token); the handler
\* sends no refresh request after that call.
C4_OneRefreshWhenNearExpiryAndRefreshable ==
    [][\A r \in Req :
          /\ (CredentialPresent /\ CallsTokenManager(r)) =>
                RefreshCalls(rq'[r].calls) =
                    IF NearExpiry /\ Get(user_tokens, "refresh_token", None) # None
                    THEN 1 ELSE 0
          /\ (~Free(r) /\ rq'[r].kind = rq[r].kind) =>
                RefreshCalls(rq'[r].calls) = RefreshCalls(rq[r].calls)]_vars

\* a handler sent its one refresh request and went on with the new token
C4_Witness ==
    \E r \in Req :
        /\ rq[r].kind \in {"import", "poll"}
        /\ Len(rq[r].calls) = 2
        /\ rq[r].calls[1].to = "token_refresh"
        /\ RefreshCalls(rq[r].calls) = 1

(***************************************************************************)
(* Properties of the operation poller and of the upload orchestrator.      *)
(***************************************************************************)
ShadowFields == {"status", "assetId", "assetUrl", "error"}

Terminal(shadow) == shadow.status \in {"completed", "failed"}

StatusQueries(calls) ==
    Cardinality({i \in 1..Len(calls) : calls[i].to = "operation_status"})

\* slot r takes a step of /upload-status
PollStep(r) ==
    \/ \E operation_id \in OperationIds : upload_status(r, operation_id)
    \/ /\ rq[r].pc = "poll_refresh"
       /\ \E response \in RefreshAnswers(rq[r].loc.refresh_token, AllRefreshes, AllExpires) :
            upload_status_refreshed(r, response)
    \/ /\ rq[r].pc = "poll_query"
       /\ \E response \in PollAnswers(AllBodies) : upload_status_answered(r, response)

\* C5: with polls that do not overlap, a poll step never changes the status,
\* assetId, assetUrl or error of a shadow that is completed or failed, as
\* long as the entry stays in the store (the 1-hour sweep may remove it).
C5_TerminalShadowKept ==
    [][\A r \in Req :
          PollStep(r) =>
              \A k \in (DOMAIN upload_operations) \cap (DOMAIN upload_operations') :
                  Terminal(upload_operations[k]) =>
                      Pick(upload_operations'[k], ShadowFields)
                          = Pick(upload_operations[k], ShadowFields)]_vars

\* a poll of a terminal shadow was answered from the cache
C5_Witness ==
    \E r \in Req :
        /\ rq[r].kind = "poll" /\ rq[r].pc = "done" /\ rq[r].resp.code = 200
        /\ rq[r].resp.result.status \in {"completed", "failed"}
        /\ StatusQueries(rq[r].calls) = 0
        /\ rq[r].inp \in DOMAIN upload_operations
        /\ Terminal(upload_operations[rq[r].inp])

\* the response of slot r carries the assetId and assetUrl of the shadow
ReturnsCached(r, shadow) ==
    /\ rq'[r].pc = "done"
    /\ rq'[r].resp.code = 200
    /\ rq'[r].resp.success
    /\ rq'[r].resp.result.status = "completed"
    /\ {"assetId", "assetUrl"} \subseteq DOMAIN rq'[r].resp.result
    /\ rq'[r].resp.result.assetId = shadow.assetId
    /\ rq'[r].resp.result.assetUrl = shadow.assetUrl

\* C6 as stated: a poll of an operation whose shadow is completed sends no
\* remote HTTP request of any kind and returns the cached assetId, assetUrl.
C6_CompletedPollSendsNothing ==
    [][\A r \in Req : \A k \in DOMAIN upload_operations :
          (upload_operations[k].status = "completed" /\ upload_status(r, k)) =>
              (rq'[r].calls = << >> /\ ReturnsCached(r, upload_operations[k]))]_vars

\* C6 amended: a poll of an operation whose shadow is completed and not
\* older than one hour never queries the remote operation status; the only
\* request it can send is the one token refresh of get_valid_access_token.
\* With a Credential more than 60 seconds from expiry it sends nothing and
\* returns the cached assetId and assetUrl; after a refresh it returns them
\* too whenever it returns a result.
C6_CompletedPollSendsNoQuery ==
    [][\A r \in Req : \A k \in DOMAIN upload_operations :
          upload_operations[k].status = "completed" =>
              /\ ( /\ upload_operations[k].created_at >= now - 3600
                   /\ upload_status(r, k) ) =>
                     /\ StatusQueries(rq'[r].calls) = 0
                     /\ Len(rq'[r].calls) = RefreshCalls(rq'[r].calls)
                     /\ (CredentialPresent /\ ~NearExpiry) =>
                            (rq'[r].calls = << >> /\ ReturnsCached(r, upload_operations[k]))
                     /\ rq'[r].pc = "done" =>
                            \/ ReturnsCached(r, upload_operations[k])
                            \/ rq'[r].resp.code = 401
              /\ ( /\ rq[r].pc = "poll_refresh"
                   /\ rq[r].inp = k
                   /\ \E response \in RefreshAnswers(rq[r].loc.refresh_token,
                                                    AllRefreshes, AllExpires) :
                         upload_status_refreshed(r, response) ) =>
                     /\ rq'[r].pc = "done"
                     /\ rq'[r].calls = rq[r].calls
                     /\ \/ ReturnsCached(r, upload_operations[k])
                        \/ rq'[r].resp.code = 401]_vars

\* a poll of a completed shadow refreshed the token, then answered from the cache
C6_Witness ==
    \E r \in Req :
        /\ rq[r].kind = "poll" /\ rq[r].pc = "done" /\ rq[r].resp.code = 200
        /\ rq[r].resp.result.status = "completed"
        /\ Len(rq[r].calls) = 1
        /\ rq[r].calls[1].to = "token_refresh"

NoError(data) == "error" \notin DOMAIN data \/ data.error = EmptyDict

\* no assetId: no response object, or one without assetId, or an empty one
NoAssetId(data) ==
    \/ "response" \notin DOMAIN data
    \/ /\ data.response # JNull
       /\ \/ "assetId" \notin DOMAIN data.response
          \/ data.response.assetId = JStr("")

\* answers of the status endpoint that are done, with no error
DoneAnswers == {a \in PollAnswers(AllBodies) :
                   /\ ~a.timeout /\ a.status_code = 200
                   /\ Get(a.json, "done", FALSE)
                   /\ NoError(a.json)}

ShadowIs(operations, k, st) ==
    k \in DOMAIN operations /\ operations[k].status = st

AssetIdOf(data) == IF data.response.assetId = JNum(999) THEN "999"
                   ELSE data.response.assetId.s

HasAssetId(data) ==
    /\ "response" \in DOMAIN data
    /\ data.response # JNull
    /\ "assetId" \in DOMAIN data.response
    /\ data.response.assetId \in {JStr("999"), JNum(999)}

CompletedResult(k, a) ==
    [operationId |-> k, status |-> "completed", assetId |-> a,
     assetUrl |-> <<"https://create.roblox.com/dashboard/creations/store/", a,
                    "/configure">>]

\* C8: a poll of a processing operation that is answered done, with no error
\* and assetId a, returns success with status completed, assetId a and the
\* dashboard URL of a, and the shadow becomes completed with the same assetId
\* and assetUrl, which is what a poll answered from the cache returns.
C8_DoneWithAssetCompletes ==
    [][\A r \in Req :
          (rq[r].pc = "poll_query" /\ ShadowIs(upload_operations, rq[r].inp, "processing")) =>
              \A a \in DoneAnswers :
                  (HasAssetId(a.json) /\ upload_status_answered(r, a)) =>
                      LET k == rq[r].inp
                          want == CompletedResult(k, AssetIdOf(a.json))
                      IN /\ rq'[r].pc = "done"
                         /\ rq'[r].resp = [code |-> 200, success |-> TRUE, result |-> want]
                         /\ Pick(upload_operations'[k], ShadowFields)
                               = Pick(want, ShadowFields)
                         /\ PollContinue(r, k, << >>, user_tokens', upload_operations')[r].resp
                               = rq'[r].resp]_vars

\* a poll completed the shadow from a remote answer
C8_Witness ==
    \E r \in Req :
        /\ rq[r].kind = "poll" /\ rq[r].pc = "done" /\ rq[r].resp.code = 200
        /\ StatusQueries(rq[r].calls) = 1
        /\ rq[r].resp.result.status = "completed"
        /\ rq[r].resp.result.assetId = "999"
        /\ ShadowIs(upload_operations, rq[r].inp, "completed")

\* seg is what follows the last "/" of path
IsFinalSegment(seg, path) ==
    /\ \A i \in 1..Len(seg) : seg[i] # "/"
    /\ Len(seg) <= Len(path)
    /\ SubSeq(path, Len(path) - Len(seg) + 1, Len(path)) = seg
    /\ Len(seg) < Len(path) => path[Len(path) - Len(seg)] = "/"

\* answers of the asset-creation endpoint: 200 or 201, a path, done not set
SubmittedAnswers ==
    {a \in UploadAnswers(OnePathSet, SubmitBodies) :
        /\ ~a.timeout /\ a.status_code \in {200, 201}
        /\ Get(a.json, "path", << >>) # << >>
        /\ ~Get(a.json, "done", FALSE)}

\* C9: when the submit of /import is answered 200 or 201 with a non-empty
\* path and done not set, the call returns success with status processing and
\* operationId the final "/"-separated segment of the path, and a processing
\* shadow is recorded under exactly that operationId.
C9_SubmittedIsProcessing ==
    [][\A r \in Req :
          rq[r].pc = "imp_upload" =>
              \A a \in SubmittedAnswers :
                  import_model_uploaded(r, a) =>
                      /\ rq'[r].pc = "done"
                      /\ rq'[r].resp.code = 200
                      /\ rq'[r].resp.success
                      /\ rq'[r].resp.result.status = "processing"
                      /\ DOMAIN rq'[r].resp.result = {"operationId", "status"}
                      /\ IsFinalSegment(rq'[r].resp.result.operationId, a.json.path)
                      /\ DOMAIN upload_operations' =
                            (DOMAIN upload_operations) \cup {rq'[r].resp.result.operationId}
                      /\ upload_operations'[rq'[r].resp.result.operationId].status
                            = "processing"]_vars

\* an import returned processing and its shadow is in the store
C9_Witness ==
    \E r \in Req :
        /\ rq[r].kind = "import" /\ rq[r].pc = "done" /\ rq[r].resp.code = 200
        /\ rq[r].resp.result.status = "processing"
        /\ ShadowIs(upload_operations, rq[r].resp.result.operationId, "processing")

(***************************************************************************)
(* Properties of the session.                                              *)
(***************************************************************************)
Disconnected(r) ==
    /\ rq'[r].pc = "done"
    /\ rq'[r].resp = [code |-> 200, success |-> TRUE]
    /\ user_tokens' = EmptyDict

\* C10: /disconnect returns {success: true} and leaves no Credential, with
\* no Credential to start with (then without a revoke request) and whatever
\* the revoke request does, fail or raise; /status then reports
\* connected=false and no user_info.
C10_DisconnectAlwaysSucceeds ==
    [][\A r \in Req :
          /\ (~CredentialPresent /\ disconnect(r)) =>
                (Disconnected(r) /\ rq'[r].calls = << >>)
          /\ rq[r].pc = "disc_revoke" =>
                \A answer \in RevokeAnswers :
                    disconnect_revoked(r, answer) => Disconnected(r)
          /\ (user_tokens = EmptyDict /\ status(r)) =>
                /\ rq'[r].resp.connected = FALSE
                /\ rq'[r].resp.user_info = None]_vars

\* a /disconnect sent the revoke request and cleared the Credential
C10_Witness ==
    \E r \in Req :
        /\ rq[r].kind = "disconnect" /\ rq[r].pc = "done"
        /\ Len(rq[r].calls) = 1
        /\ rq[r].calls[1].to = "token_revoke"
        /\ user_tokens = EmptyDict

(***************************************************************************)
(* Properties of the errors of /import.                                    *)
(***************************************************************************)
\* the response of a handler that raised
IsError(resp) == "success" \notin DOMAIN resp

CallsTo(calls, to) == Cardinality({i \in 1..Len(calls) : calls[i].to = to})

\* C11 as stated: every error response of /import carries one of the status
\* codes 400, 401, 408 and 502.
C11_ImportErrorCodes ==
    \A r \in Req :
        (rq[r].kind = "import" /\ rq[r].pc = "done" /\ IsError(rq[r].resp)) =>
            rq[r].resp.code \in {400, 401, 408, 502}

NoUserId == Get(Get(user_tokens, "user_info", EmptyDict), "userId", "") = ""

\* slot r fails in the preconditions of /import, having sent nothing to the
\* model URL or to the asset-creation endpoint
FailsBeforeDownload(r, code, detail) ==
    /\ rq'[r].pc = "done"
    /\ rq'[r].resp = [code |-> code, detail |-> detail]
    /\ CallsTo(rq'[r].calls, "download") = 0
    /\ CallsTo(rq'[r].calls, "assets") = 0
    /\ upload_operations' = upload_operations

\* C12: /import fails with 401 (not connected) when get_valid_access_token
\* yields no token (no Credential, no refresh token to refresh with, or a
\* refresh answered non-200), and with 400 (User ID not found) when it yields
\* a token and the committed identity has no userId; in both cases it sends
\* no download and no asset-creation request and leaves the shadow store
\* unchanged.
C12_ImportPreconditions ==
    [][\A r \in Req :
          /\ \A format \in Formats :
                import_model(r, [format |-> format]) =>
                   /\ ( \/ ~CredentialPresent
                        \/ NearExpiry /\ Get(user_tokens, "refresh_token", None) = None )
                      => FailsBeforeDownload(r, 401, "Not connected to Roblox")
                   /\ (CredentialPresent /\ ~NearExpiry /\ NoUserId)
                      => FailsBeforeDownload(r, 400, "User ID not found")
          /\ rq[r].pc = "imp_refresh" =>
                \A response \in RefreshAnswers(rq[r].loc.refresh_token,
                                               AllRefreshes, AllExpires) :
                    import_model_refreshed(r, response) =>
                       /\ response.status_code # 200
                          => FailsBeforeDownload(r, 401, "Not connected to Roblox")
                       /\ (response.status_code = 200 /\ NoUserId)
                          => FailsBeforeDownload(r, 400, "User ID not found")]_vars

\* an /import of a Credential without userId failed with 400, sending nothing
C12_Witness ==
    \E r \in Req :
        /\ rq[r].kind = "import" /\ rq[r].pc = "done"
        /\ rq[r].resp = [code |-> 400, detail |-> "User ID not found"]
        /\ rq[r].calls = << >>
        /\ CredentialPresent /\ NoUserId

(***************************************************************************)
(* Properties of the archive extraction of /import.                        *)
(***************************************************************************)
\* the extensions the claim accepts for a requested format
AcceptedExtensions(format) ==
    CASE format = "fbx" -> {".fbx"}
      [] format = "glb" -> {".glb"}
      [] format = "gltf" -> {".gltf", ".glb"}
      [] format = "obj" -> {".obj"}
      [] OTHER -> {".glb", ".fbx"}

\* file name and content type of an upload whose format is an extension
UploadOfExtension(ext) ==
    CASE ext = ".fbx" -> [file_name |-> "model.fbx", content_type |-> "model/fbx"]
      [] ext = ".glb" -> [file_name |-> "model.glb", content_type |-> "model/gltf-binary"]
      [] ext = ".gltf" -> [file_name |-> "model.gltf", content_type |-> "model/gltf+json"]
      [] ext = ".obj" -> [file_name |-> "model.obj", content_type |-> "model/obj"]

\* the asset-creation request slot r has just sent
SentUpload(r) == rq'[r].calls[Len(rq'[r].calls)]

\* C13: when the downloaded payload is an archive with an entry whose
\* lower-cased name ends with an extension accepted for the requested format,
\* /import uploads the first such entry in directory order, under the file
\* name and content type of that entry's extension, whatever the requested
\* format; entries [model.glb, textures.png] with format glb upload model.glb
\* as glb.
C13_FirstMatchingEntryExtracted ==
    [][\A r \in Req :
          rq[r].pc = "imp_download" =>
              \A names \in Archives(ArchiveNames) :
                  import_model_downloaded(r, [timeout |-> FALSE, status_code |-> 200,
                                              content |-> Zip(names)]) =>
                      LET accepted == AcceptedExtensions(rq[r].inp.format)
                          hits == {i \in 1..Len(names) : Lower(names[i][2]) \in accepted}
                      IN hits # {} =>
                           \E i \in hits :
                              /\ \A j \in hits : i <= j
                              /\ rq'[r].pc = "imp_upload"
                              /\ SentUpload(r).to = "assets"
                              /\ SentUpload(r).model_data = <<"entry", names[i]>>
                              /\ SentUpload(r).file_name =
                                    UploadOfExtension(Lower(names[i][2])).file_name
                              /\ SentUpload(r).content_type =
                                    UploadOfExtension(Lower(names[i][2])).content_type
                              /\ (rq[r].inp.format = "glb" /\
                                  names = <<(<<"model", ".glb">>), (<<"textures", ".png">>)>>)
                                 => /\ SentUpload(r).model_data = <<"entry", <<"model", ".glb">>>>
                                    /\ SentUpload(r).file_name = "model.glb"]_vars

\* an /import of format gltf extracted a .glb entry and uploads it as glb
C13_Witness ==
    \E r \in Req :
        /\ rq[r].kind = "import" /\ rq[r].pc = "imp_upload"
        /\ rq[r].inp.format = "gltf"
        /\ rq[r].calls[Len(rq[r].calls)].model_data = <<"entry", <<"Model", ".GLB">>>>
        /\ rq[r].calls[Len(rq[r].calls)].file_name = "model.glb"
        /\ rq[r].calls[Len(rq[r].calls)].content_type = "model/gltf-binary"

(***************************************************************************)
(* Properties of the token manager under refresh.                          *)
(***************************************************************************)
\* slot r takes the step of /import or /upload-status that handles the
\* answer of its refresh request
RefreshAnswered(r, response) ==
    \/ rq[r].pc = "imp_refresh" /\ import_model_refreshed(r, response)
    \/ rq[r].pc = "poll_refresh" /\ upload_status_refreshed(r, response)

Refreshing(r) == rq[r].pc \in {"imp_refresh", "poll_refresh"}

SentRefreshAnswers(r) ==
    RefreshAnswers(rq[r].loc.refresh_token, AllRefreshes, AllExpires)

\* get_valid_access_token has returned a token to the handler of slot r in
\* this step: the handler went on past it
TokenReturned(r) ==
    /\ \/ CallsTokenManager(r)
       \/ Refreshing(r) /\ \E response \in SentRefreshAnswers(r) :
                                RefreshAnswered(r, response)
    /\ rq'[r].pc \notin {"imp_refresh", "poll_refresh"}
    /\ ~(rq'[r].pc = "done" /\ rq'[r].resp.code \in {401, 500})

\* C14 as stated: whenever get_valid_access_token returns an access token,
\* expiresAt of the Credential is more than 60 seconds in the future.
C14_ReturnedTokenValid ==
    [][\A r \in Req :
          TokenReturned(r) => user_tokens'.expires_at > now' + 60]_vars

\* C15 as stated: with overlapping requests, at most one refresh request
\* carrying a given refresh token is in flight at any time.
C15_NoRefreshRace ==
    \A r1, r2 \in Req :
        (r1 # r2 /\ Refreshing(r1) /\ Refreshing(r2)) =>
            rq[r1].loc.refresh_token # rq[r2].loc.refresh_token

\* the last request of slot r failed with 401 after its one refresh request
RefreshRefused(r) ==
    /\ rq[r].kind \in {"import", "poll"} /\ rq[r].pc = "done"
    /\ rq[r].resp = [code |-> 401, detail |-> "Not connected to Roblox"]
    /\ RefreshCalls(rq[r].calls) = 1
    /\ Len(rq[r].calls) = 1

\* C16: when a refresh request is answered non-200, the handler fails with
\* 401 (get_valid_access_token returned no token), the Credential is left
\* as it was, no second refresh request is sent in that call, and the next
\* call of /import or /upload-status sends one new refresh request.
C16_RefusedRefreshKeepsCredential ==
    [][\A r \in Req :
          /\ Refreshing(r) =>
                \A response \in SentRefreshAnswers(r) :
                    (response.status_code # 200 /\ RefreshAnswered(r, response)) =>
                        /\ rq'[r].pc = "done"
                        /\ rq'[r].resp = [code |-> 401, detail |-> "Not connected to Roblox"]
                        /\ rq'[r].calls = rq[r].calls
                        /\ RefreshCalls(rq'[r].calls) = 1
                        /\ user_tokens' = user_tokens
          /\ (RefreshRefused(r) /\ CallsTokenManager(r)) =>
                /\ RefreshCalls(rq'[r].calls) = 1
                /\ rq'[r].calls[1].refresh_token = rq[r].calls[1].refresh_token]_vars

\* a refresh was refused and the Credential is still in place
C16_Witness ==
    \E r \in Req :
        /\ RefreshRefused(r)
        /\ CredentialPresent
        /\ user_tokens.refresh_token = rq[r].calls[1].refresh_token

\* C17 as stated: after a successful refresh the refresh token of the
\* Credential is the new one when the answer carries one, the previous one
\* when the answer carries none (field missing or null), and never null.
C17_RefreshTokenCarriedForward ==
    [][\A r \in Req :
          Refreshing(r) =>
              \A response \in SentRefreshAnswers(r) :
                  (response.status_code = 200 /\ RefreshAnswered(r, response)) =>
                      /\ user_tokens'.refresh_token # None
                      /\ user_tokens'.refresh_token =
                            IF Get(response.json, "refresh_token", None) # None
                            THEN response.json.refresh_token
                            ELSE user_tokens.refresh_token]_vars

(***************************************************************************)
(* Properties of the answers that settle nothing.                          *)
(***************************************************************************)
\* answers of the status endpoint that do not settle the operation: a
\* timeout, a non-200 status, or a body with done unset and no error
UnsettledAnswers ==
    {a \in PollAnswers(AllBodies) :
        \/ a.timeout
        \/ a.status_code # 200
        \/ ~Get(a.json, "done", FALSE) /\ NoError(a.json)}

\* C18: when a poll of an operation whose shadow is not completed or failed
\* gets a timeout, a non-200 answer, or an answer with done unset and no
\* error, it returns success with status processing and leaves the shadow
\* store as it was.
C18_UnsettledPollIsProcessing ==
    [][\A r \in Req :
          ( /\ rq[r].pc = "poll_query"
            /\ ~ShadowIs(upload_operations, rq[r].inp, "completed")
            /\ ~ShadowIs(upload_operations, rq[r].inp, "failed") ) =>
              \A a \in UnsettledAnswers :
                  upload_status_answered(r, a) =>
                      /\ rq'[r].pc = "done"
                      /\ rq'[r].resp =
                            [code |-> 200, success |-> TRUE,
                             result |-> [operationId |-> rq[r].inp,
                                         status |-> "processing"]]
                      /\ upload_operations' = upload_operations]_vars

\* a poll that queried the remote returned processing for a processing shadow
C18_Witness ==
    \E r \in Req :
        /\ rq[r].kind = "poll" /\ rq[r].pc = "done" /\ rq[r].resp.code = 200
        /\ StatusQueries(rq[r].calls) = 1
        /\ rq[r].resp.result.status = "processing"
        /\ ShadowIs(upload_operations, rq[r].inp, "processing")

(***************************************************************************)
(* Properties of the submit answer of /import.                             *)
(***************************************************************************)
\* answers of the asset-creation endpoint: 200 or 201, a path, done set
FinishedAnswers ==
    {a \in UploadAnswers(OnePathSet, SubmitBodies) :
        /\ ~a.timeout /\ a.status_code \in {200, 201}
        /\ Get(a.json, "path", << >>) # << >>
        /\ Get(a.json, "done", FALSE)}

\* C19 as stated: when the submit of /import is answered with done set, the
\* shadow recorded for the operation agrees with the outcome of the call: it
\* is failed, with the error message of the call, when the call fails, and
\* completed, with the assetId and assetUrl returned, when the call succeeds;
\* it is never left processing.
C19_FinishedSubmitShadowAgrees ==
    [][\A r \in Req :
          rq[r].pc = "imp_upload" =>
              \A a \in FinishedAnswers :
                  import_model_uploaded(r, a) =>
                      \E k \in DOMAIN upload_operations' :
                          /\ IsFinalSegment(k, a.json.path)
                          /\ rq'[r].pc = "done"
                          /\ IF IsError(rq'[r].resp)
                             THEN /\ upload_operations'[k].status = "failed"
                                  /\ upload_operations'[k].error = rq'[r].resp.detail
                             ELSE /\ upload_operations'[k].status = "completed"
                                  /\ upload_operations'[k].assetId =
                                        rq'[r].resp.result.assetId
                                  /\ upload_operations'[k].assetUrl =
                                        rq'[r].resp.result.assetUrl]_vars

\* the submit answered 200 or 201 with no path, or an empty one
PathlessAnswers ==
    {a \in UploadAnswers(OnePathSet, SubmitBodies) :
        /\ ~a.timeout /\ a.status_code \in {200, 201}
        /\ Get(a.json, "path", << >>) = << >>}

\* C20: when the submit of /import is answered 200 or 201 with no path or
\* an empty one, /import fails with 502 and the shadow store is left as it
\* was: no entry is recorded, none under the id "unknown" either.
C20_PathlessSubmitIsProtocolError ==
    [][\A r \in Req :
          rq[r].pc = "imp_upload" =>
              \A a \in PathlessAnswers :
                  import_model_uploaded(r, a) =>
                      /\ rq'[r].pc = "done"
                      /\ rq'[r].resp = [code |-> 502,
                                        detail |-> "Roblox did not return an operation path"]
                      /\ upload_operations' = upload_operations
                      /\ <<"unknown">> \notin DOMAIN upload_operations']_vars

\* an /import failed with 502 after its asset-creation request
C20_Witness ==
    \E r \in Req :
        /\ rq[r].kind = "import" /\ rq[r].pc = "done"
        /\ rq[r].resp.code = 502
        /\ CallsTo(rq[r].calls, "assets") = 1
        /\ <<"unknown">> \notin DOMAIN upload_operations

(***************************************************************************)
(* Properties of the callback after the state check.                       *)
(***************************************************************************)
\* C21: when the token exchange of a callback that passed the state check
\* is answered non-200, the callback fails (400), makes no identity fetch
\* and leaves the Credential as it was; its AuthorizationAttempt is gone
\* from the store, and a later callback with the same state is rejected.
C21_FailedExchangeConsumesState ==
    [][\A r \in Req :
          /\ rq[r].pc = "cb_exchange" =>
                \A response \in ExchangeAnswers(rq[r].inp, AllRefreshes, AllExpires) :
                    (response.status_code # 200 /\ oauth_callback_exchanged(r, response)) =>
                        /\ rq'[r].pc = "done"
                        /\ rq'[r].resp = [code |-> 400, error |-> "Token exchange failed"]
                        /\ CallsTo(rq'[r].calls, "userinfo") = 0
                        /\ user_tokens' = user_tokens
                        /\ rq[r].inp \notin DOMAIN oauth_states'
          /\ \A s \in 1..MaxStates :
                ( /\ rq[r].kind = "callback" /\ rq[r].pc = "done" /\ rq[r].inp = s
                  /\ rq[r].resp = [code |-> 400, error |-> "Token exchange failed"]
                  /\ oauth_callback(r, s) ) => RejectedInvalid(r)]_vars

\* a callback failed in the token exchange with a Credential in place
C21_Witness ==
    \E r \in Req :
        /\ rq[r].kind = "callback" /\ rq[r].pc = "done"
        /\ rq[r].resp = [code |-> 400, error |-> "Token exchange failed"]
        /\ rq[r].calls = <<[to |-> "token_exchange"]>>
        /\ CredentialPresent
        /\ rq[r].inp \notin DOMAIN oauth_states

\* the identity fetch of slot r is answered and the callback commits
CommitsCredential(r, user_response) ==
    /\ rq'[r].pc = "done"
    /\ rq'[r].resp.code = 200
    /\ user_tokens'.access_token = rq[r].loc.token_data.access_token
    /\ user_response.status_code # 200 => user_tokens'.user_info.userId = ""

\* what C22 says of the callback and of /status
CallbackCommitsAnyIdentity(r) ==
    /\ rq[r].pc = "cb_userinfo" =>
          \A user_response \in UserinfoAnswers(rq[r].inp, AllProfiles) :
              oauth_callback_userinfo(r, user_response) =>
                  CommitsCredential(r, user_response)
    /\ (CredentialPresent /\ NoUserId /\ status(r)) =>
          /\ rq'[r].resp.connected = TRUE
          /\ rq'[r].resp.user_info.userId = ""

ImportStarts(r) == \E format \in Formats : import_model(r, [format |-> format])

ImportRefreshed(r) ==
    /\ rq[r].pc = "imp_refresh"
    /\ \E response \in SentRefreshAnswers(r) : import_model_refreshed(r, response)

\* C22 as stated: a callback with a successful token exchange commits a
\* Credential and returns success whatever the identity fetch answers; with
\* a non-200 identity fetch the identity has an empty userId, /status
\* reports connected=true, and every /import made while that Credential is
\* in place fails with 400 (User ID not found).
C22_EmptyIdentityImportIs400 ==
    [][\A r \in Req :
          /\ CallbackCommitsAnyIdentity(r)
          /\ (CredentialPresent /\ NoUserId /\ ImportStarts(r)) =>
                \/ rq'[r].pc = "imp_refresh"
                \/ FailsBeforeDownload(r, 400, "User ID not found")
          /\ (CredentialPresent /\ NoUserId /\ ImportRefreshed(r)) =>
                FailsBeforeDownload(r, 400, "User ID not found")]_vars

\* C22 amended: as above, except that an /import made while the Credential
\* with the empty userId is in place fails with 400 (User ID not found) only
\* when get_valid_access_token yields a token, and with 401 (not connected)
\* when it yields none: the token is near expiry and the Credential holds no
\* refresh token or the refresh is answered non-200.  Either way it sends no
\* download and no asset-creation request, and a refresh keeps the identity.
C22_EmptyIdentityImportFails ==
    [][\A r \in Req :
          /\ CallbackCommitsAnyIdentity(r)
          /\ (CredentialPresent /\ NoUserId /\ ImportStarts(r)) =>
                \/ /\ NearExpiry /\ Get(user_tokens, "refresh_token", None) # None
                   /\ rq'[r].pc = "imp_refresh"
                \/ /\ NearExpiry /\ Get(user_tokens, "refresh_token", None) = None
                   /\ FailsBeforeDownload(r, 401, "Not connected to Roblox")
                \/ /\ ~NearExpiry
                   /\ FailsBeforeDownload(r, 400, "User ID not found")
          /\ (CredentialPresent /\ NoUserId /\ rq[r].pc = "imp_refresh") =>
                \A response \in SentRefreshAnswers(r) :
                    import_model_refreshed(r, response) =>
                        /\ user_tokens'.user_info = user_tokens.user_info
                        /\ IF response.status_code = 200
                           THEN FailsBeforeDownload(r, 400, "User ID not found")
                           ELSE FailsBeforeDownload(r, 401, "Not connected to Roblox")]_vars

\* after a refused identity fetch and a later refresh, /import fails with 400
C22_Witness ==
    \E r \in Req :
        /\ rq[r].kind = "import" /\ rq[r].pc = "done"
        /\ rq[r].resp = [code |-> 400, detail |-> "User ID not found"]
        /\ RefreshCalls(rq[r].calls) = 1
        /\ CredentialPresent /\ NoUserId
        /\ user_tokens.user_info.username = ""

(***************************************************************************)
(* Properties of the shadow store under overlapping polls.                 *)
(***************************************************************************)
\* C23 as stated: every entry of the shadow store has status processing,
\* completed or failed, carries assetId and assetUrl only when completed,
\* and carries error only when failed.
C23_ShadowWellFormed ==
    \A k \in DOMAIN upload_operations :
        LET shadow == upload_operations[k]
        IN /\ shadow.status \in {"processing", "completed", "failed"}
           /\ ("assetId" \in DOMAIN shadow \/ "assetUrl" \in DOMAIN shadow)
                 => shadow.status = "completed"
           /\ "error" \in DOMAIN shadow => shadow.status = "failed"

\* C24 as stated: when the remote answer of an in-flight poll arrives for an
\* operation whose shadow is already completed or failed, the poll leaves
\* the status, assetId, assetUrl and error of that shadow as they are.
C24_InFlightPollKeepsTerminal ==
    [][\A r \in Req :
          ( /\ rq[r].pc = "poll_query"
            /\ rq[r].inp \in DOMAIN upload_operations
            /\ Terminal(upload_operations[rq[r].inp])
            /\ \E a \in PollAnswers(PollRaceBodies) : upload_status_answered(r, a) ) =>
              /\ rq[r].inp \in DOMAIN upload_operations'
              /\ Pick(upload_operations'[rq[r].inp], ShadowFields)
                    = Pick(upload_operations[rq[r].inp], ShadowFields)]_vars

\* C25 as stated: a poll that went on to query the remote, having a valid
\* token, returns a result with status processing, completed or failed,
\* whatever the remote answers and whether the operation has a shadow or not.
C25_PollNeverRaises ==
    \A r \in Req :
        (rq[r].kind = "poll" /\ rq[r].pc = "done" /\ StatusQueries(rq[r].calls) = 1) =>
            /\ rq[r].resp.code = 200
            /\ rq[r].resp.result.status \in {"processing", "completed", "failed"}

(***************************************************************************)
(* Properties of the Credential under overlapping requests.                *)
(***************************************************************************)
\* the authorization a token was issued for, or refreshed from
IssuedFor(token) == token[2]

\* C26 as stated: the access token, the refresh token and the identity of
\* the Credential all stem from the same authorization.
C26_CredentialOfOneAuthorization ==
    CredentialPresent =>
        /\ ToString(IssuedFor(user_tokens.access_token)) = user_tokens.user_info.userId
        /\ user_tokens.refresh_token # None =>
              IssuedFor(user_tokens.refresh_token) = IssuedFor(user_tokens.access_token)

\* C27 as stated: when the refresh request of a waiting /import or
\* /upload-status is answered 200 after /disconnect cleared the Credential,
\* no Credential is re-created and the waiting request fails with 401 (not
\* connected).
C27_RefreshAfterDisconnectIs401 ==
    [][\A r \in Req :
          (Refreshing(r) /\ user_tokens = EmptyDict) =>
              \A response \in SentRefreshAnswers(r) :
                  (response.status_code = 200 /\ RefreshAnswered(r, response)) =>
                      /\ user_tokens' = EmptyDict
                      /\ rq'[r].pc = "done"
                      /\ rq'[r].resp = [code |-> 401, detail |-> "Not connected to Roblox"]]_vars

(***************************************************************************)
(* Liveness of the poll protocol.                                          *)
(***************************************************************************)
\* /import has returned the operation as processing
ReturnedProcessing ==
    /\ rq[1].kind = "import" /\ rq[1].pc = "done" /\ rq[1].resp.code = 200
    /\ rq[1].resp.result = [operationId |-> <<"abc123">>, status |-> "processing"]

\* a poll of the operation has returned a terminal status
ReceivedTerminal ==
    /\ rq[1].kind = "poll" /\ rq[1].pc = "done" /\ rq[1].inp = <<"abc123">>
    /\ rq[1].resp.code = 200
    /\ rq[1].resp.result.status \in {"completed", "failed"}

\* C28 as stated: once /import has returned an operation as processing, a
\* frontend that keeps polling eventually receives a terminal status,
\* however much time has elapsed, provided refreshes are granted and the
\* remote answers done.
C28_PollingReachesTerminal == ReturnedProcessing ~> ReceivedTerminal

====
